---- MODULE Spec2Model ----
(***************************************************************************)
(* Model of molcalc/views.py: the submission view ajax_submitquantum, its  *)
(* validation chain, the fingerprint key, and the dedup lookup / pipeline  *)
(* / store-add sequence over the shared request.dbsession.                 *)
(*                                                                         *)
(* A text (Python str) is modelled as the non-empty sequence of its lines, *)
(* i.e. text.split("\n"): a str with k line breaks is a sequence of k+1    *)
(* lines, the empty str is <<"">>.  A message is a sequence of fragments   *)
(* whose concatenation is the str; diagnostics are one character each.     *)
(***************************************************************************)
EXTENDS Integers, Sequences, FiniteSets, TLC

VARIABLES
    settings,    \* request.registry.settings
    store,       \* rows of models.GamessCalculation reachable via dbsession
    now,         \* the clock read by datetime.datetime.now()
    pc,          \* per worker: position inside ajax_submitquantum
    req,         \* per worker: the request being served
    loc,         \* per worker: the handler's local variables
    result,      \* per worker: what the handler returned / raised
    touched,     \* per worker: collaborators called while serving req
    invoked,     \* history: pipeline invocations per hashkey
    unrecorded,  \* history: pipeline runs per hashkey that stored no record
    origin       \* history: for each row of store, the text submitted by its creator

vars == <<settings, store, now, pc, req, loc, result, touched, invoked, unrecorded, origin>>

----------------------------------------------------------------------------
(* Bounds of the model *)

\* number of submissions served in one behaviour
MaxRequests == 3

\* number of concurrent workers in the interleaved specification
NumWorkers == 2

----------------------------------------------------------------------------
(* Program constants *)

\* views.py:153  max_atoms = 10
max_atoms == 10

\* views.py:159  for _ in range(3)
header_lines == 3

----------------------------------------------------------------------------
(* Small helpers on sequences *)

Repeat(x, n) == [i \in 1..n |-> x]

Drop(s, n) == SubSeq(s, n + 1, Len(s))

----------------------------------------------------------------------------
(* The texts the clients submit *)

EmptyText == <<"">>

Header1 == <<"molcalc", "t1", "">>

Header2 == <<"rdkit", "t2", "note">>

Headers == { Header1, Header2 }

AtomLines(nHeavy, nH) == Repeat("C", nHeavy) \o Repeat("H", nH)

MolBlock(geom, nHeavy, nH) == <<geom>> \o AtomLines(nHeavy, nH) \o <<"M  END">>

\* molecules that parse and carry coordinates, under either header
GoodBlocks ==
    { MolBlock("coords", 1, 0), MolBlock("coords", 1, 1),
      MolBlock("coords", max_atoms, 0), MolBlock("coords", max_atoms + 1, 0) }

\* no atoms; no coordinates; no coordinates and too many heavy atoms; no
\* end line
OddBlocks ==
    { MolBlock("coords", 0, 0), MolBlock("nocoords", 1, 0),
      MolBlock("nocoords", max_atoms + 1, 0), <<"coords", "C">> }

\* the empty text, and a text with fewer than three line breaks
ShortTexts == { EmptyText, <<"a", "b">> }

Texts ==
    { h \o b : h \in Headers, b \in GoodBlocks } \cup
    { Header1 \o b : b \in OddBlocks } \cup ShortTexts

BlockedIp == "10.0.0.9"

Clients == { BlockedIp, "10.0.0.1" }

EmptyPost == [k \in {} |-> ""]

Posts ==
    { EmptyPost, [add_hydrogens |-> "1"] } \cup
    { [sdf |-> t] : t \in Texts } \cup
    { [sdf |-> t, add_hydrogens |-> "0"] : t \in Texts } \cup
    { [sdf |-> Header1 \o MolBlock("coords", 1, 0), add_hydrogens |-> "1"] }

\* what the blocked client sends: a valid, an empty and a malformed payload
BlockedPosts ==
    { EmptyPost, [add_hydrogens |-> "1"], [sdf |-> Header1 \o MolBlock("coords", 1, 0)] }

Requests ==
    [remote_addr : Clients \ {BlockedIp}, POST : Posts] \cup
    [remote_addr : {BlockedIp}, POST : BlockedPosts]

\* the two configurations: no block-list key, and a block-list
Settings == { [k \in {} |-> {}], [block_ip |-> {BlockedIp}] }

----------------------------------------------------------------------------
(* Python str <-> bytes, and the digest *)

\* str.encode("utf-8"): the bytes object carrying the text
encode_utf8(text) == [bytes |-> text]

\* bytes.decode("utf8")
decode_utf8(b) == b.bytes

\* hashlib.md5(data).hexdigest(): a digest of exactly the bytes given,
\* taken to be collision-free on the texts of the model
md5_hexdigest(b) == <<"md5", b.bytes>>

----------------------------------------------------------------------------
(* StructureCodec and the geometry capability (rdkit / ppqm.chembridge),   *)
(* as the view uses them                                                   *)

Elements == {"C", "H"}

AtomicNumber(sym) == IF sym = "H" THEN 1 ELSE 6

\* what the toolkit writes to its error stream, one character per fragment
DiagCounts == <<"[", "t", "]", " ", "n", "o", " ", "c", "o", "u", "n", "t", "s">>
DiagAtom   == <<"[", "t", "]", " ", "a", "t", "o", "m", " ", "#", " ", "1", "4", " ", "N">>
DiagEnd    == <<"[", "t", "]", " ", "[", "#", "1", "4", "]", " ", "n", "o", " ", "e", "n", "d">>

\* chembridge.sdfstr_to_molobj(sdfstr, return_status=True)
sdfstr_to_molobj(sdf) ==
    LET lines == decode_utf8(sdf)
        n     == Len(lines)
        body  == SubSeq(lines, header_lines + 2, n - 1)
    IN  IF n < header_lines + 2
        THEN [ok |-> FALSE, status |-> DiagCounts]
        ELSE IF lines[n] # "M  END"
        THEN [ok |-> FALSE, status |-> DiagEnd]
        ELSE IF lines[header_lines + 1] \notin {"coords", "nocoords"}
                \/ \E i \in 1..Len(body) : body[i] \notin Elements
        THEN [ok |-> FALSE, status |-> DiagAtom]
        ELSE [ok |-> TRUE,
              molobj |-> [atoms      |-> [i \in 1..Len(body) |-> AtomicNumber(body[i])],
                          confs      |-> IF lines[header_lines + 1] = "coords" THEN 1 ELSE 0,
                          hs_added   |-> FALSE,
                          embedded   |-> 0,
                          optimized  |-> FALSE]]

\* the conformer never asked for
HasConformer_NotChecked(molobj) == TRUE

\* molobj.GetConformer() raises ValueError when the molecule has no conformer
HasConformer(molobj) == molobj.confs > 0

\* chembridge.molobj_to_atoms(molobj): the atomic numbers
molobj_to_atoms(molobj) == molobj.atoms

IsHydrogen(z) == z = 1

IsHeavy(z) == z # 1

\* np.where(atoms != 1)[0]: the positions of the heavy atoms
HeavyPositions(atoms) == {i \in 1..Len(atoms) : IsHeavy(atoms[i])}

\* the added atoms given the atomic number of carbon
AddHs_AsHeavyAtoms(molobj) ==
    [molobj EXCEPT !.atoms = @ \o Repeat(6, Cardinality(HeavyPositions(@))),
                   !.hs_added = TRUE]

\* Chem.AddHs(molobj): explicit hydrogens for the open valences
\* (one per carbon here), conformers kept
AddHs(molobj) ==
    [molobj EXCEPT !.atoms = @ \o Repeat(1, Cardinality(HeavyPositions(@))),
                   !.hs_added = TRUE]

\* AllChem.EmbedMultipleConfs(molobj, numConfs=n): replaces the conformers
\* by n freshly embedded ones
EmbedMultipleConfs(molobj, numConfs) ==
    [molobj EXCEPT !.confs = numConfs, !.embedded = @ + numConfs]

\* chembridge.molobj_optimize(molobj)
molobj_optimize(molobj) == [molobj EXCEPT !.optimized = TRUE]

\* the outcomes of the numerical geometry step: it succeeds, or an
\* exception leaves embedding / optimization
GeomOutcomes == {"ok", "raise"}

----------------------------------------------------------------------------
(* Sanitizing of the toolkit's diagnostic, views.py:137-138 *)

IsDigit(c) == c \in {"0", "1", "2", "3", "4", "5", "6", "7", "8", "9"}

\* the diagnostic passed on whole
SplitLast_KeepsAll(status) == status

\* status.split("]")[-1]: what follows the last "]"
SplitLast(status) ==
    LET closes == {i \in 1..Len(status) : status[i] = "]"}
    IN  IF closes = {} THEN status
        ELSE Drop(status, CHOOSE i \in closes : \A j \in closes : j <= i)

\* length of the run of digits starting at position i
RECURSIVE DigitRun(_, _)
DigitRun(s, i) == IF i <= Len(s) /\ IsDigit(s[i]) THEN 1 + DigitRun(s, i + 1) ELSE 0

\* re.sub(r"\# [0-9]+", "", s): leftmost non-overlapping matches removed
RECURSIVE ReSubIndex(_, _)
ReSubIndex(s, i) ==
    IF i > Len(s) THEN <<>>
    ELSE IF s[i] = "#" /\ i + 1 <= Len(s) /\ s[i + 1] = " " /\ DigitRun(s, i + 2) > 0
    THEN ReSubIndex(s, i + 2 + DigitRun(s, i + 2))
    ELSE <<s[i]>> \o ReSubIndex(s, i + 1)

Sanitize(status) == ReSubIndex(SplitLast(status), 1)

----------------------------------------------------------------------------
(* FingerprintKey, views.py:158-163 *)

\* sdfstr = sdfstr[sdfstr.index("\n") + 1:], three times: drop everything up to and including the first line break
RECURSIVE StripLines(_, _)
StripLines(text, k) == IF k = 0 THEN text ELSE StripLines(Tail(text), k - 1)

\* the header left in the hashed text
Canonical_KeepsHeader(text) == text

\* one line break too few put in front of the rest
Canonical_TwoBlankLines(text) ==
    Repeat("", header_lines - 1) \o StripLines(text, header_lines)

\* "\n" * 3 + rest: three empty lines, then the rest; when the rest is the
\* empty str the third line break is followed by one empty line
Canonical(text) == Repeat("", header_lines) \o StripLines(text, header_lines)

\* the loop raises ValueError when a line break is missing
CanStrip(text) == Len(text) >= header_lines + 1

computeKey(text) == md5_hexdigest(encode_utf8(Canonical(text)))

AllKeys == { computeKey(t) : t \in {u \in Texts : CanStrip(u)} }

----------------------------------------------------------------------------
(* The results the view returns *)

Msg(str) == <<str>>

ErrBlocked   == [error |-> "Error 194 - blocked ip",
                 message |-> Msg("IP address has been blocked for missue")]
ErrEmptyPost == [error |-> "Error 128 - empty post", message |-> Msg("Error. Empty post.")]
ErrSdfKey    == [error |-> "Error 132 - sdf key error",
                 message |-> Msg("Error. Missing information.")]
ErrParse(status) == [error |-> "Error 141 - rdkit error", message |-> Sanitize(status)]
ErrConformer == [error |-> "Error 141 - rdkit error",
                 message |-> Msg("Error. Server was unable to generate conformations for this molecule")]
ErrMaxAtoms  == [error |-> "Error 194 - max atoms error",
                 message |-> Msg("Stop Casper. Max ten heavy atoms.")]
ErrPipeline  == [error |-> "293", message |-> Msg("Internal server server. Uncaught exception")]

\* a return / an exception leaving the view, with the collaborators called
\* so far and the local variables at that point
Return(value, calls, locals) ==
    [kind |-> "return", value |-> value, touched |-> calls, locals |-> locals]

Raise(exc, calls, locals) ==
    [kind |-> "raise", exc |-> exc, touched |-> calls, locals |-> locals]

NoLocals == [k \in {} |-> 0]

----------------------------------------------------------------------------
(* ajax_submitquantum, views.py:119-163: everything before the store query *)

\* the block-list is looked up but every client is let through
IsBlocked_LetsThrough(cfg, user_ip) == "block_ip" \in DOMAIN cfg /\ user_ip \notin cfg.block_ip

\* views.py:123
IsBlocked(cfg, user_ip) == "block_ip" \in DOMAIN cfg /\ user_ip \in cfg.block_ip

\* views.py:133  request.POST.get("add_hydrogens", "1") == "1"
AddHydrogensFlag(post) ==
    (IF "add_hydrogens" \in DOMAIN post THEN post.add_hydrogens ELSE "1") = "1"

\* the request's flag not consulted
NeedsHydrogens_IgnoresFlag(molobj, add_hydrogens) ==
    \A i \in 1..Len(molobj_to_atoms(molobj)) : ~IsHydrogen(molobj_to_atoms(molobj)[i])

\* views.py:147  1 not in atoms and add_hydrogens
NeedsHydrogens(molobj, add_hydrogens) ==
    /\ \A i \in 1..Len(molobj_to_atoms(molobj)) : ~IsHydrogen(molobj_to_atoms(molobj)[i])
    /\ add_hydrogens

\* views.py:148-150
Hydrogenate(molobj) == molobj_optimize(EmbedMultipleConfs(AddHs(molobj), 1))

\* the ceiling not applied
TooManyHeavy_NotEnforced(molobj) == FALSE

\* the ceiling applied one atom early
TooManyHeavy_OffByOne(molobj) ==
    Cardinality(HeavyPositions(molobj_to_atoms(molobj))) >= max_atoms

\* views.py:152-155  len(np.where(atoms != 1)[0]) > max_atoms
TooManyHeavy(molobj) ==
    Cardinality(HeavyPositions(molobj_to_atoms(molobj))) > max_atoms

\* views.py:146-163, for a molecule that parsed and has a conformer
Normalize(post, sdf, molobj, geom) ==
    LET hyd  == NeedsHydrogens(molobj, AddHydrogensFlag(post))
        mol2 == IF hyd THEN Hydrogenate(molobj) ELSE molobj
        seen == {"codec"} \cup (IF hyd THEN {"geometry"} ELSE {})
    IN  IF hyd /\ geom = "raise"
        THEN Raise("ValueError", seen, [sdfstr |-> sdf, molobj |-> AddHs(molobj)])
        ELSE IF TooManyHeavy(mol2)
        THEN Return(ErrMaxAtoms, seen, [sdfstr |-> sdf, molobj |-> mol2])
        ELSE IF ~CanStrip(decode_utf8(sdf))
        THEN Raise("ValueError", seen, [sdfstr |-> sdf, molobj |-> mol2])
        ELSE [kind    |-> "continue",
              touched |-> seen,
              locals  |-> [sdfstr  |-> Canonical(decode_utf8(sdf)),
                           molobj  |-> mol2,
                           hashkey |-> computeKey(decode_utf8(sdf))]]

\* the payload looked at before the block-list
Front_EmptyCheckFirst(cfg, request, geom) ==
    LET post == request.POST
    IN  IF DOMAIN post = {} THEN Return(ErrEmptyPost, {}, NoLocals)
        ELSE IF IsBlocked(cfg, request.remote_addr) THEN Return(ErrBlocked, {}, NoLocals)
        ELSE IF "sdf" \notin DOMAIN post THEN Raise("KeyError", {}, NoLocals)
        ELSE IF post.sdf = EmptyText THEN Return(ErrSdfKey, {}, NoLocals)
        ELSE LET sdf    == encode_utf8(post.sdf)
                 parsed == sdfstr_to_molobj(sdf)
             IN  IF ~parsed.ok
                 THEN Return(ErrParse(parsed.status), {"codec"}, [sdfstr |-> sdf])
                 ELSE IF ~HasConformer(parsed.molobj)
                 THEN Return(ErrConformer, {"codec"}, [sdfstr |-> sdf, molobj |-> parsed.molobj])
                 ELSE Normalize(post, sdf, parsed.molobj, geom)

\* views.py:119-163
Front(cfg, request, geom) ==
    LET post == request.POST
    IN  IF IsBlocked(cfg, request.remote_addr) THEN Return(ErrBlocked, {}, NoLocals)
        ELSE IF DOMAIN post = {} THEN Return(ErrEmptyPost, {}, NoLocals)
        ELSE IF "sdf" \notin DOMAIN post THEN Raise("KeyError", {}, NoLocals)
        ELSE IF post.sdf = EmptyText THEN Return(ErrSdfKey, {}, NoLocals)
        ELSE LET sdf    == encode_utf8(post.sdf)
                 parsed == sdfstr_to_molobj(sdf)
             IN  IF ~parsed.ok
                 THEN Return(ErrParse(parsed.status), {"codec"}, [sdfstr |-> sdf])
                 ELSE IF ~HasConformer(parsed.molobj)
                 THEN Return(ErrConformer, {"codec"}, [sdfstr |-> sdf, molobj |-> parsed.molobj])
                 ELSE Normalize(post, sdf, parsed.molobj, geom)

\* what the caller of the view gets
Outcome(f) ==
    IF f.kind = "return" THEN [kind |-> "return", value |-> f.value]
    ELSE [kind |-> "raise", exc |-> f.exc]

----------------------------------------------------------------------------
(* ResultStore: request.dbsession over models.GamessCalculation *)

\* a query that never finds the row
QueryFirst_NeverFinds(rows, hashkey) == 0

\* dbsession.query(GamessCalculation).filter_by(hashkey=hashkey).first():
\* the index of the first row with that hashkey, 0 for None
QueryFirst(rows, hashkey) ==
    LET hits == {i \in 1..Len(rows) : rows[i].hashkey = hashkey}
    IN  IF hits = {} THEN 0 ELSE CHOOSE i \in hits : \A j \in hits : i <= j

\* the timestamp written to every row
TouchRow_AllRows(rows, i, t) == [j \in DOMAIN rows |-> [rows[j] EXCEPT !.created = t]]

\* calculation.created = datetime.datetime.now()
TouchRow(rows, i, t) == [rows EXCEPT ![i].created = t]

\* dbsession.add(new_calculation): one more row
AddRow(rows, row) == Append(rows, row)

RowsWithKey(rows, hashkey) == {i \in 1..Len(rows) : rows[i].hashkey = hashkey}

----------------------------------------------------------------------------
(* ComputationPipeline: pipelines.calculation_pipeline(molecule_info, settings) *)

PipelineDetails == {"gamess crashed", "scratch disk full"}

\* what a run does: raise with some detail, return a message and a new
\* calculation, or return a message and None
PipelineOutcomes ==
    { [kind |-> "raise", detail |-> d] : d \in PipelineDetails } \cup
    { [kind |-> "record"], [kind |-> "norecord"] }

calculation_pipeline(molecule_info, cfg, outcome, t) ==
    IF outcome.kind = "raise"
    THEN [raised |-> TRUE, detail |-> outcome.detail]
    ELSE IF outcome.kind = "record"
    THEN [raised |-> FALSE,
          msg |-> [hashkey |-> molecule_info.hashkey],
          has_new |-> TRUE,
          new_calculation |-> [hashkey |-> molecule_info.hashkey,
                               created |-> t,
                               sdfstr  |-> molecule_info.sdfstr]]
    ELSE [raised |-> FALSE,
          msg |-> [error |-> "Error g-80", message |-> Msg("Error. Unable to optimize molecule")],
          has_new |-> FALSE]

----------------------------------------------------------------------------
(* ajax_submitquantum, views.py:165-187: the steps on the shared store *)

Workers == 1..NumWorkers

Pending == [kind |-> "pending"]

\* views.py:174
MoleculeInfo(l) == [sdfstr |-> l.sdfstr, molobj |-> l.molobj, hashkey |-> l.hashkey]

\* views.py:167-171: the hit branch
HitStore(rows, i, t) == TouchRow(rows, i, t)

HitResult(hashkey) == [kind |-> "return", value |-> [hashkey |-> hashkey]]

\* the new calculation never handed to the session
MissStore_DropsRecord(rows, run) == rows

\* views.py:184-185
MissStore(rows, run) ==
    IF ~run.raised /\ run.has_new THEN AddRow(rows, run.new_calculation) ELSE rows

\* the exception's text handed to the caller
MissResult_LeaksDetail(run) ==
    [kind |-> "return",
     value |-> IF run.raised THEN [error |-> "293", message |-> Msg(run.detail)] ELSE run.msg]

\* views.py:176-187: the value returned after a run
MissResult(run) ==
    [kind |-> "return", value |-> IF run.raised THEN ErrPipeline ELSE run.msg]

Stores(run) == ~run.raised /\ run.has_new

Bump(f, k) == [f EXCEPT ![k] = @ + 1]

----------------------------------------------------------------------------
(* Initial state: an empty store, no request served yet *)

NoRequest == [k \in {} |-> 0]

Init ==
    /\ settings \in Settings
    /\ store = <<>>
    /\ now = 0
    /\ pc = [w \in Workers |-> "idle"]
    /\ req = [w \in Workers |-> NoRequest]
    /\ loc = [w \in Workers |-> NoLocals]
    /\ result = [w \in Workers |-> [kind |-> "none"]]
    /\ touched = [w \in Workers |-> {}]
    /\ invoked = [k \in AllKeys |-> 0]
    /\ unrecorded = [k \in AllKeys |-> 0]
    /\ origin = <<>>

Free(w) == pc[w] \in {"idle", "done"}

----------------------------------------------------------------------------
(* One whole call of ajax_submitquantum, served by worker 1 with no other  *)
(* request in flight                                                       *)

Submit(request) ==
    /\ now < MaxRequests
    /\ \A w \in Workers : Free(w)
    /\ now' = now + 1
    /\ req' = [req EXCEPT ![1] = request]
    /\ pc' = [pc EXCEPT ![1] = "done"]
    /\ UNCHANGED settings
    /\ \E geom \in GeomOutcomes : \E f \in {Front(settings, request, geom)} :
         LET t   == now + 1
             key == f.locals.hashkey
             i   == QueryFirst(store, key)
         IN  IF f.kind # "continue"
             THEN /\ result' = [result EXCEPT ![1] = Outcome(f)]
                  /\ touched' = [touched EXCEPT ![1] = f.touched]
                  /\ loc' = [loc EXCEPT ![1] = f.locals]
                  /\ UNCHANGED <<store, invoked, unrecorded, origin>>
             ELSE IF i # 0
             THEN /\ store' = HitStore(store, i, t)
                  /\ result' = [result EXCEPT ![1] = HitResult(key)]
                  /\ touched' = [touched EXCEPT
                                   ![1] = f.touched \cup {"store.query", "store.touch"}]
                  /\ loc' = [loc EXCEPT ![1] = [sdfstr |-> f.locals.sdfstr,
                                                molobj |-> f.locals.molobj,
                                                hashkey |-> key,
                                                calculation |-> i]]
                  /\ UNCHANGED <<invoked, unrecorded, origin>>
             ELSE \E outcome \in PipelineOutcomes :
                  \E run \in {calculation_pipeline(MoleculeInfo(f.locals), settings, outcome, t)} :
                      /\ store' = MissStore(store, run)
                      /\ result' = [result EXCEPT ![1] = MissResult(run)]
                      /\ touched' = [touched EXCEPT
                                       ![1] = f.touched \cup {"store.query", "pipeline"}
                                              \cup (IF Stores(run) THEN {"store.add"} ELSE {})]
                      /\ loc' = [loc EXCEPT ![1] = [sdfstr |-> f.locals.sdfstr,
                                                    molobj |-> f.locals.molobj,
                                                    hashkey |-> key,
                                                    calculation |-> 0,
                                                    run |-> run]]
                      /\ invoked' = Bump(invoked, key)
                      /\ unrecorded' = IF Stores(run) THEN unrecorded
                                                      ELSE Bump(unrecorded, key)
                      /\ origin' = IF Len(store') > Len(store)
                                   THEN Append(origin, request.POST.sdf) ELSE origin

Next == \E request \in Requests : Submit(request)

Spec == Init /\ [][Next]_vars

----------------------------------------------------------------------------
(* The same view served by several workers at once: each worker's call is  *)
(* cut at its accesses to the shared store (query, pipeline run, add)      *)

\* the submissions that race: one client, one molecule under two headers,
\* and a second molecule
RaceRequests ==
    { [remote_addr |-> "10.0.0.1", POST |-> [sdf |-> h \o MolBlock("coords", 1, 1)]] :
        h \in Headers } \cup
    { [remote_addr |-> "10.0.0.1", POST |-> [sdf |-> Header1 \o MolBlock("coords", 1, 0)]] }

\* views.py:119-165: up to and including the query
Receive(w, request) ==
    /\ now < MaxRequests
    /\ Free(w)
    /\ now' = now + 1
    /\ req' = [req EXCEPT ![w] = request]
    /\ UNCHANGED <<settings, store, invoked, unrecorded, origin>>
    /\ \E geom \in GeomOutcomes : \E f \in {Front(settings, request, geom)} :
         IF f.kind # "continue"
         THEN /\ pc' = [pc EXCEPT ![w] = "done"]
              /\ result' = [result EXCEPT ![w] = Outcome(f)]
              /\ touched' = [touched EXCEPT ![w] = f.touched]
              /\ loc' = [loc EXCEPT ![w] = f.locals]
         ELSE \E i \in {QueryFirst(store, f.locals.hashkey)} :
              /\ pc' = [pc EXCEPT ![w] = IF i # 0 THEN "hit" ELSE "miss"]
              /\ result' = [result EXCEPT ![w] = Pending]
              /\ touched' = [touched EXCEPT ![w] = f.touched \cup {"store.query"}]
              /\ loc' = [loc EXCEPT ![w] = [sdfstr |-> f.locals.sdfstr,
                                            molobj |-> f.locals.molobj,
                                            hashkey |-> f.locals.hashkey,
                                            calculation |-> i]]

\* views.py:167-171
Touch(w) ==
    /\ pc[w] = "hit"
    /\ store' = HitStore(store, loc[w].calculation, now)
    /\ result' = [result EXCEPT ![w] = HitResult(loc[w].hashkey)]
    /\ touched' = [touched EXCEPT ![w] = @ \cup {"store.touch"}]
    /\ pc' = [pc EXCEPT ![w] = "done"]
    /\ UNCHANGED <<settings, now, req, loc, invoked, unrecorded, origin>>

\* views.py:173-182
RunPipeline(w) ==
    /\ pc[w] = "miss"
    /\ \E outcome \in PipelineOutcomes :
       \E run \in {calculation_pipeline(MoleculeInfo(loc[w]), settings, outcome, now)} :
         /\ loc' = [loc EXCEPT ![w] = [sdfstr |-> loc[w].sdfstr,
                                       molobj |-> loc[w].molobj,
                                       hashkey |-> loc[w].hashkey,
                                       calculation |-> 0,
                                       run |-> run]]
         /\ invoked' = Bump(invoked, loc[w].hashkey)
         /\ unrecorded' = IF Stores(run) THEN unrecorded
                                         ELSE Bump(unrecorded, loc[w].hashkey)
         /\ touched' = [touched EXCEPT ![w] = @ \cup {"pipeline"}]
         /\ IF run.raised
            THEN /\ result' = [result EXCEPT ![w] = MissResult(run)]
                 /\ pc' = [pc EXCEPT ![w] = "done"]
            ELSE /\ result' = result
                 /\ pc' = [pc EXCEPT ![w] = "computed"]
    /\ UNCHANGED <<settings, store, now, req, origin>>

\* views.py:184-187
Finish(w) ==
    /\ pc[w] = "computed"
    /\ store' = MissStore(store, loc[w].run)
    /\ result' = [result EXCEPT ![w] = MissResult(loc[w].run)]
    /\ touched' = [touched EXCEPT
                     ![w] = @ \cup (IF Stores(loc[w].run) THEN {"store.add"} ELSE {})]
    /\ pc' = [pc EXCEPT ![w] = "done"]
    /\ origin' = IF Len(store') > Len(store)
                 THEN Append(origin, req[w].POST.sdf) ELSE origin
    /\ UNCHANGED <<settings, now, req, loc, invoked, unrecorded>>

NextConc ==
    \E w \in Workers :
        \/ \E request \in RaceRequests : Receive(w, request)
        \/ Touch(w)
        \/ RunPipeline(w)
        \/ Finish(w)

SpecConc == Init /\ [][NextConc]_vars

----------------------------------------------------------------------------
(* ajax_sdf_to_smiles, views.py:77-95, next to ajax_submitquantum *)

MaxDiagLen == 5

DiagAlphabet == {"[", "#", "1", "]", " "}

\* the diagnostics the toolkit may write: every text over the alphabet up
\* to the bound, one character per fragment
Diagnostics == UNION { [1..n -> DiagAlphabet] : n \in 0..MaxDiagLen }

ErrMissingKey == [error |-> "Error 55 - Missing key", message |-> Msg("Error. Missing information.")]
ErrGet        == [error |-> "Error 60 - get error", message |-> Msg("Error. Missing information.")]
ErrConvert(status) == [error |-> "Error 69 - rdkit error", message |-> Sanitize(status)]

\* chembridge.sdf_to_smiles(sdf): the line notation of the molecule, or
\* None and the toolkit's diagnostic
sdf_to_smiles(sdf, status) ==
    LET parsed == sdfstr_to_molobj(sdf)
    IN  IF parsed.ok THEN [ok |-> TRUE, smiles |-> [atoms |-> parsed.molobj.atoms]]
        ELSE [ok |-> FALSE, status |-> status]

\* what the conversion view is sent: no payload, a payload without
\* structure, a structure that converts and two that do not
ConvertRequests ==
    [remote_addr : {"10.0.0.1"},
     POST : { EmptyPost, [add_hydrogens |-> "1"] } \cup
            { [sdf |-> t] : t \in { Header1 \o MolBlock("coords", 1, 1),
                                    Header1 \o <<"coords", "C">>, EmptyText } }]

\* the submissions whose structure text the codec refuses
MalformedRequests ==
    { r \in Requests : /\ r.remote_addr # BlockedIp
                       /\ "sdf" \in DOMAIN r.POST
                       /\ r.POST.sdf # EmptyText
                       /\ ~sdfstr_to_molobj(encode_utf8(r.POST.sdf)).ok }

\* one whole call of ajax_sdf_to_smiles; the view reads and writes nothing
\* shared, so it is served once, by worker 1 before its first submission
SdfToSmiles(request) ==
    /\ pc[1] = "idle"
    /\ req' = [req EXCEPT ![1] = request]
    /\ pc' = [pc EXCEPT ![1] = "done"]
    /\ UNCHANGED <<settings, store, now, invoked, unrecorded, origin>>
    /\ LET post == request.POST
       IN  IF DOMAIN post = {}
           THEN /\ result' = [result EXCEPT ![1] = [kind |-> "return", value |-> ErrMissingKey]]
                /\ touched' = [touched EXCEPT ![1] = {}]
                /\ loc' = [loc EXCEPT ![1] = NoLocals]
           ELSE IF "sdf" \notin DOMAIN post
           THEN /\ result' = [result EXCEPT ![1] = [kind |-> "return", value |-> ErrGet]]
                /\ touched' = [touched EXCEPT ![1] = {}]
                /\ loc' = [loc EXCEPT ![1] = NoLocals]
           ELSE \E status \in Diagnostics :
                \E conv \in {sdf_to_smiles(encode_utf8(post.sdf), status)} :
                    /\ touched' = [touched EXCEPT ![1] = {"codec"}]
                    /\ IF conv.ok
                       THEN /\ result' = [result EXCEPT
                                            ![1] = [kind |-> "return",
                                                    value |-> [smiles |-> conv.smiles]]]
                            /\ loc' = [loc EXCEPT ![1] = [sdf |-> encode_utf8(post.sdf)]]
                       ELSE /\ result' = [result EXCEPT
                                            ![1] = [kind |-> "return",
                                                    value |-> ErrConvert(conv.status)]]
                            /\ loc' = [loc EXCEPT ![1] = [sdf |-> encode_utf8(post.sdf),
                                                          status |-> conv.status]]

NextViews ==
    \/ \E request \in ConvertRequests : SdfToSmiles(request)
    \/ \E request \in MalformedRequests : Submit(request)

SpecViews == Init /\ [][NextViews]_vars

----------------------------------------------------------------------------
(* Claims *)

Done(w) == pc[w] = "done"

Returned(w, value) == result[w] = [kind |-> "return", value |-> value]

Rows(k) == RowsWithKey(store, k)

\* C1 (as stated): across any sequence of submit calls, including runs that
\* fail or return no record, the pipeline is invoked at most once for each
\* distinct fingerprint key.
C1_AtMostOncePerKey == \A k \in AllKeys : invoked[k] <= 1

\* C1 (amended): across any sequence of submit calls the pipeline is never
\* invoked for a key that has a record in the store: the invocations for a
\* key number at most one more than its runs that failed or returned no
\* record, and a key has at most one record.
C1_AtMostOncePerStoredKey ==
    \A k \in AllKeys :
        /\ invoked[k] <= 1 + unrecorded[k]
        /\ Cardinality(Rows(k)) = invoked[k] - unrecorded[k]
        /\ Cardinality(Rows(k)) <= 1

\* a key whose first run failed, whose second run stored a record, and
\* whose third submission was answered from the store
C1_Witness ==
    \E k \in AllKeys :
        /\ invoked[k] = 2 /\ unrecorded[k] = 1 /\ Rows(k) # {}
        /\ Done(1) /\ Returned(1, [hashkey |-> k]) /\ "pipeline" \notin touched[1]

\* C2: when two submissions of the same unseen structure run concurrently,
\* with lookup, pipeline call and add interleaved in any order, the store
\* ends with exactly one record for that key.
C2_OneRecordPerRace ==
    \A v, w \in Workers :
        ( /\ v # w /\ Done(v) /\ Done(w)
          /\ "store.add" \in touched[v] /\ "store.add" \in touched[w]
          /\ loc[v].hashkey = loc[w].hashkey )
        => Cardinality(Rows(loc[w].hashkey)) = 1

\* the request just served came from the client on the configured block-list
BlockedCall == /\ "block_ip" \in DOMAIN settings'
               /\ req'[1].remote_addr \in settings'.block_ip
               /\ now' = now + 1

\* C3: a submission from a client on the configured block-list is rejected
\* with the blocked-client error before any other step, whatever the
\* payload: no codec call, no store lookup or write, no pipeline run.
C3_BlockedShortCircuit ==
    [][ BlockedCall =>
          /\ result'[1] = [kind |-> "return", value |-> ErrBlocked]
          /\ touched'[1] = {}
          /\ store' = store
          /\ invoked' = invoked ]_vars

\* the blocked client was turned away with a valid structure in its payload
C3_Witness ==
    /\ Done(1) /\ req[1].remote_addr = BlockedIp /\ "block_ip" \in DOMAIN settings
    /\ "sdf" \in DOMAIN req[1].POST /\ sdfstr_to_molobj(encode_utf8(req[1].POST.sdf)).ok
    /\ Returned(1, ErrBlocked)

\* C4: every validation, parse or normalization failure is returned as a
\* structured error: no call of ajax_submitquantum ends in an exception
\* leaving the view.
C4_NoUnhandledFault == \A w \in Workers : Done(w) => result[w].kind = "return"

\* the error codes of the validation chain
ValidationCodes ==
    { ErrBlocked.error, ErrEmptyPost.error, ErrSdfKey.error, ErrParse(<<>>).error,
      ErrConformer.error, ErrMaxAtoms.error }

\* the call just served missed the store and its pipeline run raised
FailedRun == /\ now' = now + 1
             /\ "run" \in DOMAIN loc'[1]
             /\ loc'[1].run.raised

\* C5: when the pipeline fails on a dedup miss, submit returns one fixed
\* generic internal-error result, whose code differs from every validation
\* code and whose content is the same for every failure detail, and the
\* store is left unchanged, with no record for that key.
C5_GenericPipelineError ==
    [][ FailedRun =>
          /\ result'[1] = [kind |-> "return",
                           value |-> [error |-> "293",
                                      message |-> Msg("Internal server server. Uncaught exception")]]
          /\ result'[1].value.error \notin ValidationCodes
          /\ store' = store
          /\ RowsWithKey(store', loc'[1].hashkey) = {} ]_vars

\* a run failed with one of the details, after another key had been stored
C5_Witness ==
    /\ Done(1) /\ "run" \in DOMAIN loc[1] /\ loc[1].run.raised
    /\ loc[1].run.detail = "scratch disk full"
    /\ Returned(1, ErrPipeline)
    /\ Len(store) > 0

\* the molecule the codec makes of worker w's submitted text
Parsed(w) == sdfstr_to_molobj(encode_utf8(req[w].POST.sdf))

\* worker w's call got past parsing and the conformer check
PastConformerCheck(w) ==
    /\ Done(w)
    /\ "molobj" \in DOMAIN loc[w]
    /\ Parsed(w).ok /\ Parsed(w).molobj.confs > 0

HeavyAtoms(molobj) == Cardinality({i \in 1..Len(molobj.atoms) : molobj.atoms[i] # 1})

StoreOrPipeline == {"store.query", "store.touch", "store.add", "pipeline"}

\* C6: the heavy-atom ceiling is boundary-inclusive at 10: a submission
\* past parsing and the conformer check is rejected with the max-atoms
\* error iff its normalized molecule has more than 10 atoms of atomic
\* number other than 1; with exactly 10 it goes on to fingerprinting and
\* the store, with 11 it reaches neither the store nor the pipeline.
C6_HeavyAtomCeiling ==
    \A w \in Workers :
        (PastConformerCheck(w) /\ result[w].kind = "return") =>
            /\ Returned(w, ErrMaxAtoms) <=> HeavyAtoms(loc[w].molobj) > 10
            /\ HeavyAtoms(loc[w].molobj) <= 10 =>
                   ("hashkey" \in DOMAIN loc[w] /\ "store.query" \in touched[w])
            /\ HeavyAtoms(loc[w].molobj) > 10 => touched[w] \cap StoreOrPipeline = {}

\* a molecule of exactly 10 heavy atoms was fingerprinted and looked up
C6_Witness ==
    /\ PastConformerCheck(1) /\ HeavyAtoms(loc[1].molobj) = 10
    /\ "hashkey" \in DOMAIN loc[1] /\ "store.query" \in touched[1]

\* the two texts agree from the fourth line onward
SameFromFourthLine(t, u) ==
    /\ Len(t) = Len(u)
    /\ \A i \in 1..Len(t) : i > 3 => t[i] = u[i]

\* the call just served reached the store query
Fingerprinted == now' = now + 1 /\ "store.query" \in touched'[1]

\* C7: two structure texts identical from the fourth line onward, whatever
\* their three header lines, get the same fingerprint key: a submission
\* that reaches the store after one such text created a record is a hit on
\* that record, with no pipeline run.
C7_HeaderNoiseInvariance ==
    [][ \A i \in 1..Len(store) :
          (Fingerprinted /\ SameFromFourthLine(req'[1].POST.sdf, origin[i])) =>
              /\ loc'[1].hashkey = store[i].hashkey
              /\ result'[1] = [kind |-> "return", value |-> [hashkey |-> store[i].hashkey]]
              /\ invoked' = invoked
              /\ Len(store') = Len(store) ]_vars

\* a hit on a record created under the other header
C7_Witness ==
    \E i \in 1..Len(store) :
        /\ Done(1) /\ "store.touch" \in touched[1]
        /\ SameFromFourthLine(req[1].POST.sdf, origin[i])
        /\ \A n \in 1..3 : req[1].POST.sdf[n] # origin[i][n]
        /\ Returned(1, [hashkey |-> store[i].hashkey])

\* the flag the request carries, by default set
FlagOf(post) == "add_hydrogens" \notin DOMAIN post \/ post.add_hydrogens = "1"

NoHydrogenIn(molobj) == \A i \in 1..Len(molobj.atoms) : molobj.atoms[i] # 1

\* the hydrogen case: no hydrogen atom parsed and the flag set
HydrogenCase(w) == NoHydrogenIn(Parsed(w).molobj) /\ FlagOf(req[w].POST)

\* C8: hydrogens are added and exactly one new conformer is generated and
\* optimized iff the parsed molecule has no hydrogen atom and addHydrogens
\* is true; otherwise normalization leaves the molecule and its geometry
\* as parsed.
C8_HydrogenPolicy ==
    \A w \in Workers :
        PastConformerCheck(w) =>
            /\ "geometry" \in touched[w] <=> HydrogenCase(w)
            /\ loc[w].molobj.hs_added <=> HydrogenCase(w)
            /\ (HydrogenCase(w) /\ result[w].kind = "return") =>
                   /\ loc[w].molobj.embedded = 1
                   /\ loc[w].molobj.confs = 1
                   /\ loc[w].molobj.optimized
                   /\ loc[w].molobj.atoms =
                          Parsed(w).molobj.atoms \o
                          Repeat(1, Len(loc[w].molobj.atoms) - Len(Parsed(w).molobj.atoms))
            /\ ~HydrogenCase(w) => loc[w].molobj = Parsed(w).molobj

\* a hydrogen-free molecule submitted with the flag off went through as parsed
C8_Witness ==
    /\ PastConformerCheck(1) /\ NoHydrogenIn(Parsed(1).molobj)
    /\ Len(Parsed(1).molobj.atoms) > 0
    /\ ~FlagOf(req[1].POST)
    /\ loc[1].molobj = Parsed(1).molobj
    /\ "store.query" \in touched[1]

\* the call just served found a record for its key
DedupHit == /\ now' = now + 1
            /\ "store.query" \in touched'[1]
            /\ RowsWithKey(store, loc'[1].hashkey) # {}

\* C9: on a dedup hit submit returns exactly {hashkey}, runs no pipeline,
\* adds no record, and changes nothing in the store but the timestamp of
\* that one record, which becomes the current time.
C9_HitOnlyTouches ==
    [][ DedupHit =>
          /\ result'[1] = [kind |-> "return", value |-> [hashkey |-> loc'[1].hashkey]]
          /\ invoked' = invoked
          /\ Len(store') = Len(store)
          /\ \E i \in 1..Len(store) :
                /\ store[i].hashkey = loc'[1].hashkey
                /\ store'[i] = [store[i] EXCEPT !.created = now']
                /\ \A j \in 1..Len(store) : j # i => store'[j] = store[j] ]_vars

\* a hit that refreshed one of two records and left the older one alone
C9_Witness ==
    /\ Done(1) /\ "store.touch" \in touched[1]
    /\ Len(store) = 2
    /\ \E i, j \in 1..2 : /\ store[i].hashkey = loc[1].hashkey /\ store[i].created = now
                          /\ store[j].hashkey # loc[1].hashkey /\ store[j].created < now

\* C10 (as stated): after any submission that misses the store and whose
\* pipeline run succeeds, a lookup of its key finds a record.
C10_RecordAfterSuccess ==
    \A w \in Workers :
        (Done(w) /\ "run" \in DOMAIN loc[w] /\ ~loc[w].run.raised) =>
            QueryFirst(store, loc[w].hashkey) # 0

\* C10 (amended): after any submission that misses the store and whose
\* pipeline run succeeds and returns a record, a lookup of its key finds a
\* record with that key.
C10_RecordAfterReturnedRecord ==
    \A w \in Workers :
        (Done(w) /\ "run" \in DOMAIN loc[w] /\ ~loc[w].run.raised /\ loc[w].run.has_new) =>
            \E i \in 1..Len(store) : store[i].hashkey = loc[w].hashkey

\* a miss whose run returned a record, now in the store
C10_Witness ==
    /\ Done(1) /\ "run" \in DOMAIN loc[1] /\ ~loc[1].run.raised /\ loc[1].run.has_new
    /\ "store.add" \in touched[1]
    /\ store[Len(store)].hashkey = loc[1].hashkey

\* the same request with the other value of the add_hydrogens flag
FlipFlag(request) ==
    [request EXCEPT !.POST = [sdf |-> @.sdf,
                              add_hydrogens |-> IF FlagOf(@) THEN "0" ELSE "1"]]

\* worker w's call computed a fingerprint key
Keyed(w) == Done(w) /\ "hashkey" \in DOMAIN loc[w]

\* C11: the fingerprint key is computed from the text of the normalized
\* molecule: the canonical text handed to the store lookup and to the
\* pipeline describes the same atoms as the molobj handed to the pipeline,
\* and the same text submitted with the other value of addHydrogens gets a
\* different key whenever its normalized molecule differs.
C11_KeyOfNormalizedMolecule ==
    \A w \in Workers :
        Keyed(w) =>
            /\ loc[w].hashkey = md5_hexdigest(encode_utf8(loc[w].sdfstr))
            /\ sdfstr_to_molobj(encode_utf8(loc[w].sdfstr)).ok
            /\ sdfstr_to_molobj(encode_utf8(loc[w].sdfstr)).molobj.atoms = loc[w].molobj.atoms
            /\ \A other \in {Front(settings, FlipFlag(req[w]), "ok")} :
                   (other.kind = "continue" /\ other.locals.molobj # loc[w].molobj)
                       => other.locals.hashkey # loc[w].hashkey

\* what is wrong with worker w's request, read off the request itself
FromBlockedClient(w) ==
    "block_ip" \in DOMAIN settings /\ req[w].remote_addr \in settings.block_ip

EmptyPayload(w) == DOMAIN req[w].POST = {}

HasStructure(w) == "sdf" \in DOMAIN req[w].POST

EmptyStructure(w) == HasStructure(w) /\ req[w].POST.sdf = EmptyText

ParseFails(w) == HasStructure(w) /\ ~EmptyStructure(w) /\ ~Parsed(w).ok

NoConformer(w) == HasStructure(w) /\ Parsed(w).ok /\ Parsed(w).molobj.confs = 0

OverCeiling(w) == HasStructure(w) /\ Parsed(w).ok /\ HeavyAtoms(Parsed(w).molobj) > 10

ErrorCode(w) == IF "error" \in DOMAIN result[w].value THEN result[w].value.error ELSE "none"

\* C12: a submission follows the fixed step order: the store is looked up
\* only after the block-list, non-empty, parse, conformer and heavy-atom
\* checks have all passed, the pipeline is invoked only after a store miss,
\* the internal-error result is returned only after a pipeline failure,
\* and when several rejection conditions hold at once the error returned
\* is that of the earliest failing step.
C12_StepOrder ==
    \A w \in Workers :
        Done(w) =>
            /\ "codec" \in touched[w] =>
                   ~FromBlockedClient(w) /\ HasStructure(w) /\ ~EmptyStructure(w)
            /\ "geometry" \in touched[w] =>
                   "codec" \in touched[w] /\ ~ParseFails(w) /\ ~NoConformer(w)
            /\ "store.query" \in touched[w] =>
                   /\ ~FromBlockedClient(w) /\ ~EmptyPayload(w) /\ ~EmptyStructure(w)
                   /\ ~ParseFails(w) /\ ~NoConformer(w) /\ ~OverCeiling(w)
                   /\ "codec" \in touched[w]
            /\ "store.touch" \in touched[w] =>
                   "store.query" \in touched[w] /\ loc[w].calculation # 0
            /\ "pipeline" \in touched[w] =>
                   /\ "store.query" \in touched[w] /\ loc[w].calculation = 0
                   /\ "store.touch" \notin touched[w]
            /\ "store.add" \in touched[w] => "pipeline" \in touched[w]
            /\ Returned(w, ErrPipeline) <=> ("run" \in DOMAIN loc[w] /\ loc[w].run.raised)
            /\ result[w].kind = "return" =>
                   /\ FromBlockedClient(w) => Returned(w, ErrBlocked)
                   /\ (~FromBlockedClient(w) /\ EmptyPayload(w)) => Returned(w, ErrEmptyPost)
                   /\ (~FromBlockedClient(w) /\ EmptyStructure(w)) => Returned(w, ErrSdfKey)
                   /\ (~FromBlockedClient(w) /\ ParseFails(w)) =>
                          /\ ErrorCode(w) = "Error 141 - rdkit error"
                          /\ result[w].value # ErrConformer
                   /\ (~FromBlockedClient(w) /\ NoConformer(w)) => Returned(w, ErrConformer)
                   /\ (~FromBlockedClient(w) /\ OverCeiling(w) /\ ~NoConformer(w)) =>
                          Returned(w, ErrMaxAtoms)

\* a molecule with no conformer and eleven heavy atoms was rejected for the
\* conformer, after an earlier submission had gone through to the store
C12_Witness ==
    /\ Done(1) /\ NoConformer(1) /\ OverCeiling(1)
    /\ Returned(1, ErrConformer)
    /\ touched[1] = {"codec"}
    /\ Len(store) > 0

\* the payload carries one of the rejection conditions: it is empty, its
\* structure text is empty or does not parse, or its molecule has no
\* conformer or more than 10 heavy atoms
Rejectable(post) ==
    \/ DOMAIN post = {}
    \/ /\ "sdf" \in DOMAIN post
       /\ \/ post.sdf = EmptyText
          \/ \E p \in {sdfstr_to_molobj(encode_utf8(post.sdf))} :
                ~p.ok \/ p.molobj.confs = 0 \/ HeavyAtoms(p.molobj) > 10

\* the call just served came from a client not blocked and carried one of
\* the rejection conditions
RejectedCall ==
    /\ now' = now + 1
    /\ ~("block_ip" \in DOMAIN settings' /\ req'[1].remote_addr \in settings'.block_ip)
    /\ Rejectable(req'[1].POST)

\* C13: every rejected submission short-circuits: it returns its error
\* result without looking up or modifying the store and without invoking
\* the pipeline, so the store is identical before and after the call.
C13_RejectionShortCircuit ==
    [][ RejectedCall =>
          /\ store' = store
          /\ invoked' = invoked
          /\ origin' = origin
          /\ touched'[1] \cap StoreOrPipeline = {}
          /\ result'[1].kind = "return" =>
                 /\ "error" \in DOMAIN result'[1].value
                 /\ result'[1].value.error \in ValidationCodes \ {ErrBlocked.error} ]_vars

\* eleven heavy atoms were turned away while the store held two records
C13_Witness ==
    /\ Done(1) /\ OverCeiling(1) /\ ~NoConformer(1)
    /\ Returned(1, ErrMaxAtoms)
    /\ touched[1] \cap StoreOrPipeline = {}
    /\ Len(store) = 2

\* C14: canonicalization replaces exactly the first three lines of the
\* structure text with three empty lines and keeps the rest unchanged: for
\* every structure text that reaches fingerprinting the canonical text has
\* as many lines as the input, its first three lines are empty, and its
\* lines from the fourth on are the input's, in content and order.
C14_CanonicalKeepsBody ==
    \A w \in Workers :
        Keyed(w) =>
            /\ Len(loc[w].sdfstr) = Len(req[w].POST.sdf)
            /\ \A i \in 1..Len(loc[w].sdfstr) :
                   loc[w].sdfstr[i] = IF i <= 3 THEN "" ELSE req[w].POST.sdf[i]

\* a text of six lines with three non-empty header lines was fingerprinted
\* and handed to the pipeline
C14_Witness ==
    /\ Keyed(1) /\ "pipeline" \in touched[1]
    /\ Len(req[1].POST.sdf) = 6
    /\ \A i \in 1..3 : req[1].POST.sdf[i] # ""
    /\ loc[1].sdfstr = <<"", "", "">> \o SubSeq(req[1].POST.sdf, 4, 6)

\* the message holds a bracket-delimited numeric index token: "[", "#",
\* one or more digits, "]"
HasIndexToken(message) ==
    \E i \in 1..Len(message) :
        /\ message[i] = "["
        /\ i + 1 <= Len(message) /\ message[i + 1] = "#"
        /\ DigitRun(message, i + 2) > 0
        /\ i + 2 + DigitRun(message, i + 2) <= Len(message)
        /\ message[i + 2 + DigitRun(message, i + 2)] = "]"

ParseFailureCodes == { ErrParse(<<>>).error, ErrConvert(<<>>).error }

\* C15: the message returned to the caller on a structure parse failure,
\* in ajax_submitquantum and in ajax_sdf_to_smiles, never contains a
\* bracket-delimited numeric index token such as [#14], whatever diagnostic
\* the codec returned.
C15_NoIndexToken ==
    \A w \in Workers :
        (Done(w) /\ result[w].kind = "return" /\ ErrorCode(w) \in ParseFailureCodes) =>
            /\ ~HasIndexToken(result[w].value.message)
            /\ "status" \in DOMAIN loc[w] =>
                   /\ result[w].value.message = Sanitize(loc[w].status)
                   /\ ~HasIndexToken(ErrParse(loc[w].status).message)

\* a diagnostic with an index token in it and text after it was returned
\* without the token
C15_Witness ==
    /\ Done(1) /\ "status" \in DOMAIN loc[1]
    /\ HasIndexToken(loc[1].status)
    /\ ErrorCode(1) = "Error 69 - rdkit error"
    /\ result[1].value.message # <<>>
    /\ ~HasIndexToken(result[1].value.message)

\* C16: the heavy-atom decision does not depend on the addHydrogens flag:
\* a structure text that parses and has a conformer yields the same
\* heavy-atom count when submitted with the flag set and with the flag
\* clear, and is rejected by the ceiling in both cases or in neither.
C16_CeilingIgnoresFlag ==
    \A w \in Workers :
        (PastConformerCheck(w) /\ result[w].kind = "return") =>
            \A other \in {Front(settings, FlipFlag(req[w]), "ok")} :
                /\ "molobj" \in DOMAIN other.locals
                /\ HeavyAtoms(other.locals.molobj) = HeavyAtoms(loc[w].molobj)
                /\ Returned(w, ErrMaxAtoms) <=>
                       (other.kind = "return" /\ other.value = ErrMaxAtoms)

\* ten heavy atoms got their ten hydrogens and still passed the ceiling
C16_Witness ==
    /\ PastConformerCheck(1) /\ FlagOf(req[1].POST)
    /\ loc[1].molobj.hs_added
    /\ HeavyAtoms(loc[1].molobj) = 10 /\ Len(loc[1].molobj.atoms) = 20
    /\ ~Front(settings, FlipFlag(req[1]), "ok").locals.molobj.hs_added
    /\ "store.query" \in touched[1]

\* the call just served added a record
RecordAdded == Len(store') > Len(store)

\* C17: in every state reachable by any sequence of submit calls each
\* record in the store was added by a submission from a client not
\* blocked, whose structure parsed, had a conformer and at most 10 heavy
\* atoms and whose pipeline run succeeded; no record is ever removed and
\* the set of stored keys only grows.
C17_StoreGrowsByValidRuns ==
    [][ /\ Len(store') >= Len(store)
        /\ \A i \in 1..Len(store) : store'[i].hashkey = store[i].hashkey
        /\ RecordAdded =>
             /\ Len(store') = Len(store) + 1
             /\ now' = now + 1
             /\ ~("block_ip" \in DOMAIN settings' /\ req'[1].remote_addr \in settings'.block_ip)
             /\ ~Rejectable(req'[1].POST)
             /\ HeavyAtoms(loc'[1].molobj) <= 10
             /\ invoked'[loc'[1].hashkey] = invoked[loc'[1].hashkey] + 1
             /\ ~loc'[1].run.raised
             /\ result'[1].kind = "return" /\ result'[1].value # ErrPipeline
             /\ store'[Len(store')].hashkey = loc'[1].hashkey
        /\ \A i \in 1..Len(store') :
             /\ ~Rejectable([sdf |-> origin'[i]])
             /\ store'[i].hashkey = computeKey(origin'[i]) ]_vars

\* a second record, added for a molecule of ten heavy atoms after the
\* first record had been refreshed by a hit
C17_Witness ==
    /\ Len(store) = 2
    /\ Done(1) /\ "store.add" \in touched[1]
    /\ HeavyAtoms(loc[1].molobj) = 10
    /\ store[1].created > 1

====
